---- MODULE Spec2Model ----
(***************************************************************************)
(* Model of the OverseasAI.list rule tooling:                              *)
(*   scripts/check_domains.py  - DNS liveness monitor (check_domain, main) *)
(*   scripts/sync_rules.py     - corpus merge (sort_key, build_header,     *)
(*                               main)                                     *)
(*   scripts/build_clients.py  - client dialect projection (main)          *)
(*                                                                         *)
(* A rule line is modelled as a text: a sequence of tokens in which the    *)
(* token "," is the comma character and every other token is an atom, a    *)
(* maximal run of comma-free characters.  split, partition, join and       *)
(* replace are computed on that representation.                            *)
(***************************************************************************)
EXTENDS Integers, Sequences, FiniteSets, TLC

VARIABLES
    \* ---- check_domain (check_domains.py) ----
    dns_attempts,     \* what each (resolver, qtype) query would answer
    check_status,     \* return value of check_domain, "" before the call
    \* ---- monitor main (check_domains.py) ----
    pc,               \* "idle" | "checking" | "done"
    rule_file,        \* rule lines of rule/Surge/OverseasAI/OverseasAI.list
    state_file,       \* data/nxdomain_state.json: domain -> record
    domains,          \* sorted list of checked domains of the run
    state,            \* prior state loaded at the start of the run
    dns,              \* per domain: how its check behaves in this run
    queued,           \* submitted futures not yet picked by a worker
    running,          \* futures being executed by a worker
    results,          \* results dict filled in completion order
    order,            \* completion order of the futures of this run
    candidates,       \* reports/nxdomain_candidates.txt
    unknowns,         \* "## Unknowns" listing of the report
    counters,         \* OK / NXDOMAIN / UNKNOWN counters of the report
    runs,             \* number of runs so far (the clock of last_checked)
    \* ---- sync main (sync_rules.py) ----
    upstream,         \* upstream list name -> set of rule lines, or Absent
    extra_file,       \* data/upstream_extra_rules.txt (its set of lines)
    custom_file,      \* OverseasAI_Custom.list (its set of lines)
    main_file,        \* OverseasAI.list written by sync
    resolve_file,     \* OverseasAI_Resolve.list
    missing_file,     \* reports/upstream_missing.txt
    merged_rules,     \* merged set of the last completed run
    exit_status,      \* exit code and the source named by SystemExit
    sync_runs,        \* number of sync invocations (clock of "# UPDATED")
    \* ---- build_clients main ----
    surge_file,       \* the Surge list read by build_clients (header, rules)
    build_done,       \* TRUE once build_clients ran
    rules_sorted,     \* canonical list written to the pass-through dialects
    surge_header,     \* header of the pass-through dialects
    qx_rules,         \* lines written to the remap dialects
    qx_counts,        \* per-type counts handed to build_qx_header
    qx_header,        \* header of the remap dialects
    \* ---- canonical ordering ----
    rule_set,         \* a set of textually distinct rule lines
    sorted_outputs    \* the output sequences sorted() produced so far

checkVars   == <<dns_attempts, check_status>>
monitorVars == <<pc, rule_file, state_file, domains, state, dns, queued,
                 running, results, order, candidates, unknowns, counters, runs>>
syncVars    == <<upstream, extra_file, custom_file, main_file, resolve_file,
                 missing_file, merged_rules, exit_status, sync_runs>>
buildVars   == <<surge_file, build_done, rules_sorted,
                 surge_header, qx_rules, qx_counts, qx_header>>
sortVars    == <<rule_set, sorted_outputs>>
vars == <<checkVars, monitorVars, syncVars, buildVars, sortVars>>

\* the variables an operation of one program leaves alone
notCheck   == <<monitorVars, syncVars, buildVars, sortVars>>
notMonitor == <<checkVars, syncVars, buildVars, sortVars>>
notSync    == <<checkVars, monitorVars, buildVars, sortVars>>
notBuild   == <<checkVars, monitorVars, syncVars, sortVars>>
notSort    == <<checkVars, monitorVars, syncVars, buildVars>>

\* a file of the repository: absent, or present with its content
Absent == [exists |-> FALSE]
File(content) == [exists |-> TRUE, data |-> content]

(***************************************************************************)
(* Text helpers: str.split(","), str.partition(","), ",".join              *)
(***************************************************************************)
COMMA == ","

\* index of the first comma of a text, 0 when there is none
FirstComma(t) ==
    IF \E i \in 1..Len(t) : t[i] = COMMA
    THEN CHOOSE i \in 1..Len(t) : t[i] = COMMA /\ \A j \in 1..(i-1) : t[j] # COMMA
    ELSE 0

\* a comma-free text as a string: "" or its single atom
FieldOf(t) == IF t = <<>> THEN "" ELSE t[1]

\* a string as a text
TextOf(s) == IF s = "" THEN <<>> ELSE <<s>>

RECURSIVE Split(_)
Split(t) ==
    LET i == FirstComma(t) IN
    IF i = 0 THEN <<FieldOf(t)>>
    ELSE <<FieldOf(SubSeq(t, 1, i-1))>> \o Split(SubSeq(t, i+1, Len(t)))

RECURSIVE Join(_)
Join(fields) ==
    IF fields = <<>> THEN <<>>
    ELSE IF Len(fields) = 1 THEN TextOf(fields[1])
    ELSE TextOf(fields[1]) \o <<COMMA>> \o Join(Tail(fields))

\* rule.partition(","): <<head, sep, rest>>
Partition(t) ==
    LET i == FirstComma(t) IN
    IF i = 0 THEN <<FieldOf(t), "", <<>> >>
    ELSE <<FieldOf(SubSeq(t, 1, i-1)), COMMA, SubSeq(t, i+1, Len(t))>>

\* rule.split(",", 1)[0]
TypeOf(t) == Partition(t)[1]

(***************************************************************************)
(* check_domains.py : check_domain                                         *)
(***************************************************************************)
RESOLVERS == <<"1.1.1.1", "8.8.8.8">>
QTYPES    == <<"A", "AAAA">>

\* what one resolver.resolve(domain, qtype, raise_on_no_answer=False) does
Answered    == {"DATA", "NODATA", "NoAnswer"}
NameMissing == {"NXDOMAIN"}
Failed      == {"NoNameservers", "Timeout", "DNSException"}
Outcomes    == Answered \cup NameMissing \cup Failed

Attempts == {<<r, q>> : r \in 1..Len(RESOLVERS), q \in 1..Len(QTYPES)}

\* the inner "for qtype" loop of one resolver; raised = an exception left it
RECURSIVE QtypeLoop(_, _, _, _)
QtypeLoop(att, r, q, ok) ==
    IF q > Len(QTYPES) THEN [ok |-> ok, raised |-> FALSE]
    ELSE LET o == att[<<r, q>>] IN
         IF o \in Answered THEN QtypeLoop(att, r, q + 1, TRUE)
         ELSE IF o \in NameMissing THEN QtypeLoop(att, r, q + 1, ok)
         ELSE [ok |-> ok, raised |-> TRUE]

\* the outer "for resolver_ip" loop
RECURSIVE ResolverLoop(_, _, _, _)
ResolverLoop(att, r, ok, unknown) ==
    IF r > Len(RESOLVERS) THEN [ok |-> ok, unknown |-> unknown]
    ELSE LET res == QtypeLoop(att, r, 1, ok) IN
         ResolverLoop(att, r + 1, res.ok, unknown \/ res.raised)

check_domain(att) ==
    LET f == ResolverLoop(att, 1, FALSE, FALSE) IN
    IF f.ok THEN "OK"
    ELSE IF f.unknown THEN "UNKNOWN"
    ELSE "NXDOMAIN"

Statuses == {"OK", "NXDOMAIN", "UNKNOWN"}

(***************************************************************************)
(* String order of Python (code points), for sorted() and tuple compare    *)
(***************************************************************************)
StringOrder ==
    << "", ",", "1.1.1.1/32", "DOMAIN", "DOMAIN-KEYWORD", "DOMAIN-REGEX",
       "DOMAIN-SUFFIX", "DOMAIN-WILDCARD", "HOST", "HOST-KEYWORD",
       "HOST-REGEX", "HOST-SUFFIX", "HOST-WILDCARD", "IP-ASN", "IP-CIDR",
       "IP-CIDR6", "OverseasAI", "USER-AGENT", "X", "a.com", "ai", "b.com",
       "mod", "no-resolve", "v", "x.com" >>

StrRank(s) == CHOOSE i \in 1..Len(StringOrder) : StringOrder[i] = s

StrLess(a, b) == StrRank(a) < StrRank(b)

\* lexicographic order of two texts (str < str)
RECURSIVE TextLess(_, _)
TextLess(a, b) ==
    IF b = <<>> THEN FALSE
    ELSE IF a = <<>> THEN TRUE
    ELSE IF a[1] # b[1] THEN StrLess(a[1], b[1])
    ELSE TextLess(Tail(a), Tail(b))

Range(f) == {f[i] : i \in DOMAIN f}

\* sorted(set_of_strings)
RECURSIVE SortStrings(_)
SortStrings(S) ==
    IF S = {} THEN <<>>
    ELSE LET m == CHOOSE x \in S : \A y \in S : ~StrLess(y, x) IN
         <<m>> \o SortStrings(S \ {m})

(***************************************************************************)
(* check_domains.py : iter_domains, main                                   *)
(***************************************************************************)
THRESHOLD   == 3
MAX_WORKERS == 20
MaxRuns     == 4

RULE_TYPES_CHECK == {"DOMAIN", "DOMAIN-SUFFIX"}

MonitorLines ==
    { <<"DOMAIN", COMMA, "a.com">>,
      <<"DOMAIN-SUFFIX", COMMA, "b.com">>,
      <<"DOMAIN-SUFFIX", COMMA, "a.com">>,
      <<"DOMAIN-KEYWORD", COMMA, "ai">>,
      <<"DOMAIN">> }

iter_domains(rules) ==
    SortStrings({ Split(rule)[2] : rule \in
        { r \in rules : Split(r)[1] \in RULE_TYPES_CHECK /\ Len(Split(r)) >= 2 } })

AttAll(o) == [a \in Attempts |-> o]

\* DNS behaviours a checked domain is given in a run
DnsCases ==
    { AttAll("NXDOMAIN"),
      AttAll("DATA"),
      [AttAll("NXDOMAIN") EXCEPT ![<<1, 1>>] = "Timeout"] }

EmptyMap == [d \in {} |-> 0]

\* how the check of one domain behaves in a run: the answers of its queries,
\* or raises = the call leaves check_domain with an exception it does not catch
Behaviours ==
    {[raises |-> FALSE, att |-> a] : a \in DnsCases}
        \cup {[raises |-> TRUE, att |-> AttAll("DATA")]}

\* what future.result() gives the collecting loop (lines 103-106)
FutureResult(behaviour) ==
    IF behaviour.raises THEN "UNKNOWN" ELSE check_domain(behaviour.att)

\* LoopBody with the UNKNOWN branch resetting the counter
LoopBody_UnknownResets(acc, domain, res, prior, now) ==
    LET status == IF domain \in DOMAIN res THEN res[domain] ELSE "UNKNOWN"
        prev   == IF domain \in DOMAIN prior THEN prior[domain].count ELSE 0
        count  == IF status = "NXDOMAIN" THEN prev + 1 ELSE 0
    IN [ updated_state |->
            (domain :> [count |-> count, last_status |-> status,
                        last_checked |-> now]) @@ acc.updated_state,
         unknowns   |-> IF status \notin {"NXDOMAIN", "OK"}
                        THEN Append(acc.unknowns, domain) ELSE acc.unknowns,
         counters   |-> [acc.counters EXCEPT ![status] = @ + 1],
         candidates |-> IF count >= THRESHOLD
                        THEN Append(acc.candidates, domain) ELSE acc.candidates ]

\* LoopBody with the candidate test on the prior count
LoopBody_PriorCount(acc, domain, res, prior, now) ==
    LET status == IF domain \in DOMAIN res THEN res[domain] ELSE "UNKNOWN"
        prev   == IF domain \in DOMAIN prior THEN prior[domain].count ELSE 0
        count  == IF status = "NXDOMAIN" THEN prev + 1
                  ELSE IF status = "OK" THEN 0
                  ELSE prev
    IN [ updated_state |->
            (domain :> [count |-> count, last_status |-> status,
                        last_checked |-> now]) @@ acc.updated_state,
         unknowns   |-> IF status \notin {"NXDOMAIN", "OK"}
                        THEN Append(acc.unknowns, domain) ELSE acc.unknowns,
         counters   |-> [acc.counters EXCEPT ![status] = @ + 1],
         candidates |-> IF prev >= THRESHOLD
                        THEN Append(acc.candidates, domain) ELSE acc.candidates ]

\* one iteration of "for domain in domains" (lines 108-129)
LoopBody(acc, domain, res, prior, now) ==
    LET status == IF domain \in DOMAIN res THEN res[domain] ELSE "UNKNOWN"
        prev   == IF domain \in DOMAIN prior THEN prior[domain].count ELSE 0
        count  == IF status = "NXDOMAIN" THEN prev + 1
                  ELSE IF status = "OK" THEN 0
                  ELSE prev
    IN [ updated_state |->
            (domain :> [count |-> count, last_status |-> status,
                        last_checked |-> now]) @@ acc.updated_state,
         unknowns   |-> IF status \notin {"NXDOMAIN", "OK"}
                        THEN Append(acc.unknowns, domain) ELSE acc.unknowns,
         counters   |-> [acc.counters EXCEPT ![status] = @ + 1],
         candidates |-> IF count >= THRESHOLD
                        THEN Append(acc.candidates, domain) ELSE acc.candidates ]

RECURSIVE MainLoop(_, _, _, _, _, _)
MainLoop(acc, doms, i, res, prior, now) ==
    IF i > Len(doms) THEN acc
    ELSE MainLoop(LoopBody(acc, doms[i], res, prior, now), doms, i + 1,
                  res, prior, now)

InitAcc ==
    [ updated_state |-> EmptyMap, unknowns |-> <<>>,
      counters |-> [s \in Statuses |-> 0], candidates |-> <<>> ]

MonitorInit ==
    /\ pc = "idle"
    /\ rule_file \in SUBSET MonitorLines
    /\ state_file = Absent
    /\ domains = <<>>
    /\ state = EmptyMap
    /\ dns = EmptyMap
    /\ queued = <<>>
    /\ running = {}
    /\ results = EmptyMap
    /\ order = <<>>
    /\ candidates = <<>>
    /\ unknowns = <<>>
    /\ counters = [s \in Statuses |-> 0]
    /\ runs = 0

\* lines 86-100: read the rules and the state, submit one future per domain
StartRun ==
    /\ pc \in {"idle", "done"}
    /\ runs < MaxRuns
    /\ LET doms == iter_domains(rule_file) IN
       /\ domains' = doms
       /\ queued' = doms
       /\ dns' \in [Range(doms) -> Behaviours]
    /\ state' = IF state_file.exists THEN state_file.data ELSE EmptyMap
    /\ running' = {}
    /\ results' = EmptyMap
    /\ order' = <<>>
    /\ pc' = "checking"
    /\ UNCHANGED <<rule_file, state_file, candidates, unknowns, counters, runs>>
    /\ UNCHANGED notMonitor

\* a free worker of the pool takes the oldest submitted future
WorkerStart ==
    /\ pc = "checking"
    /\ queued # <<>>
    /\ Cardinality(running) < MAX_WORKERS
    /\ running' = running \cup {Head(queued)}
    /\ queued' = Tail(queued)
    /\ UNCHANGED <<pc, rule_file, state_file, domains, state, dns, results,
                   order, candidates, unknowns, counters, runs>>
    /\ UNCHANGED notMonitor

\* Complete with the result stored under the domain at the completion index
Complete_ByPosition(d) ==
    /\ pc = "checking"
    /\ d \in running
    /\ running' = running \ {d}
    /\ results' = (domains[Len(order) + 1] :> FutureResult(dns[d])) @@ results
    /\ order' = Append(order, d)
    /\ UNCHANGED <<pc, rule_file, state_file, domains, state, dns, queued,
                   candidates, unknowns, counters, runs>>
    /\ UNCHANGED notMonitor

\* a future completes and as_completed hands it to the collecting loop
Complete(d) ==
    /\ pc = "checking"
    /\ d \in running
    /\ running' = running \ {d}
    /\ results' = (d :> FutureResult(dns[d])) @@ results
    /\ order' = Append(order, d)
    /\ UNCHANGED <<pc, rule_file, state_file, domains, state, dns, queued,
                   candidates, unknowns, counters, runs>>
    /\ UNCHANGED notMonitor

\* Finish carrying the prior records of unchecked domains into the new state
Finish_KeepsPrior ==
    /\ pc = "checking"
    /\ queued = <<>>
    /\ running = {}
    /\ LET acc == MainLoop(InitAcc, domains, 1, results, state, runs + 1) IN
       /\ state_file' = File(acc.updated_state @@ state)
       /\ candidates' = SortStrings(Range(acc.candidates))
       /\ unknowns' = SortStrings(Range(acc.unknowns))
       /\ counters' = acc.counters
    /\ runs' = runs + 1
    /\ pc' = "done"
    /\ UNCHANGED <<rule_file, domains, state, dns, queued, running, results, order>>
    /\ UNCHANGED notMonitor

\* lines 108-166: the state transition loop, the state file and the reports
Finish ==
    /\ pc = "checking"
    /\ queued = <<>>
    /\ running = {}
    /\ LET acc == MainLoop(InitAcc, domains, 1, results, state, runs + 1) IN
       /\ state_file' = File(acc.updated_state)
       /\ candidates' = SortStrings(Range(acc.candidates))
       /\ unknowns' = SortStrings(Range(acc.unknowns))
       /\ counters' = acc.counters
    /\ runs' = runs + 1
    /\ pc' = "done"
    /\ UNCHANGED <<rule_file, domains, state, dns, queued, running, results, order>>
    /\ UNCHANGED notMonitor

\* between runs the rule corpus is edited (a line is added or removed)
EditRules ==
    /\ pc \in {"idle", "done"}
    /\ \E l \in MonitorLines :
          rule_file' = IF l \in rule_file THEN rule_file \ {l}
                       ELSE rule_file \cup {l}
    /\ UNCHANGED <<pc, state_file, domains, state, dns, queued, running,
                   results, order, candidates, unknowns, counters, runs>>
    /\ UNCHANGED notMonitor

MonitorNext ==
    \/ StartRun
    \/ WorkerStart
    \/ \E d \in running : Complete(d)
    \/ Finish
    \/ EditRules

(***************************************************************************)
(* sync_rules.py / build_clients.py : sort_key, sorted, Counter            *)
(***************************************************************************)
RULE_ORDER ==
    [ t \in {"DOMAIN", "DOMAIN-SUFFIX", "DOMAIN-KEYWORD", "DOMAIN-WILDCARD",
             "DOMAIN-REGEX", "IP-CIDR", "IP-CIDR6", "IP-ASN", "USER-AGENT"} |->
        CASE t = "DOMAIN" -> 0
          [] t = "DOMAIN-SUFFIX" -> 1
          [] t = "DOMAIN-KEYWORD" -> 2
          [] t = "DOMAIN-WILDCARD" -> 3
          [] t = "DOMAIN-REGEX" -> 4
          [] t = "IP-CIDR" -> 5
          [] t = "IP-CIDR6" -> 6
          [] t = "IP-ASN" -> 7
          [] t = "USER-AGENT" -> 8 ]

UnknownRank == 99

sort_key(rule) ==
    LET parts == Partition(rule) IN
    << IF parts[1] \in DOMAIN RULE_ORDER THEN RULE_ORDER[parts[1]] ELSE UnknownRank,
       parts[1], parts[3] >>

\* tuple comparison (int, str, str)
KeyLess(k1, k2) ==
    \/ k1[1] < k2[1]
    \/ k1[1] = k2[1] /\ StrLess(k1[2], k2[2])
    \/ k1[1] = k2[1] /\ k1[2] = k2[2] /\ TextLess(k1[3], k2[3])

\* stable insertion: x goes before the first element with a greater key
RECURSIVE InsertByKey(_, _)
InsertByKey(sorted, x) ==
    IF sorted = <<>> THEN <<x>>
    ELSE IF KeyLess(sort_key(x), sort_key(Head(sorted)))
         THEN <<x>> \o sorted
         ELSE <<Head(sorted)>> \o InsertByKey(Tail(sorted), x)

\* sorted(seq, key=sort_key): a stable sort of the sequence as iterated
RECURSIVE SortedByKey(_)
SortedByKey(seq) ==
    IF seq = <<>> THEN <<>>
    ELSE InsertByKey(SortedByKey(SubSeq(seq, 1, Len(seq) - 1)), seq[Len(seq)])

\* the orders in which a Python set can be iterated
IterationOrders(S) ==
    { p \in [1..Cardinality(S) -> S] :
        \A i, j \in 1..Cardinality(S) : i # j => p[i] # p[j] }

\* Counter(rule.split(",", 1)[0] for rule in rules)
CountTypes(rules) ==
    [ t \in {TypeOf(rules[i]) : i \in DOMAIN rules} |->
        Cardinality({i \in DOMAIN rules : TypeOf(rules[i]) = t}) ]

\* sum(counts.values())
RECURSIVE SumValues(_)
SumValues(counts) ==
    IF DOMAIN counts = {} THEN 0
    ELSE LET k == CHOOSE k \in DOMAIN counts : TRUE IN
         counts[k] + SumValues([j \in DOMAIN counts \ {k} |-> counts[j]])

(***************************************************************************)
(* Headers: a header line "# KEY: value" is a record [key, text, n]        *)
(***************************************************************************)
TextLine(key, text) == [key |-> key, text |-> text, n |-> 0]
CountLine(key, n)   == [key |-> key, text |-> "", n |-> n]

DOMAIN_KEYS ==
    << "DOMAIN", "DOMAIN-SUFFIX", "DOMAIN-KEYWORD", "DOMAIN-WILDCARD",
       "DOMAIN-REGEX", "IP-CIDR", "IP-CIDR6", "IP-ASN", "USER-AGENT" >>

HOST_KEYS ==
    << "HOST", "HOST-SUFFIX", "HOST-KEYWORD", "HOST-WILDCARD", "HOST-REGEX",
       "IP-CIDR", "IP-CIDR6", "IP-ASN", "USER-AGENT" >>

\* the "for key in [...]: if counts.get(key)" loop of the header builders
RECURSIVE CountLines(_, _)
CountLines(keys, counts) ==
    IF keys = <<>> THEN <<>>
    ELSE (IF Head(keys) \in DOMAIN counts /\ counts[Head(keys)] # 0
          THEN <<CountLine(Head(keys), counts[Head(keys)])>> ELSE <<>>)
         \o CountLines(Tail(keys), counts)

\* the total line summing only the listed keys
TotalLine_ListedOnly(keys, counts) ==
    CountLine("TOTAL",
        SumValues([k \in Range(keys) \cap DOMAIN counts |-> counts[k]]))

\* header.append(f"# TOTAL: {sum(counts.values())}")
TotalLine(keys, counts) == CountLine("TOTAL", SumValues(counts))

\* sync_rules.py build_header(name, updated, counts)
sync_build_header(name, updated, counts) ==
    << TextLine("NAME", name),
       TextLine("AUTHOR", "aggregated by request"),
       TextLine("REPO", "git@github.com:viewer12/OverseasAI.list.git"),
       TextLine("SOURCE", "https://github.com/blackmatrix7/ios_rule_script (rule/Surge)"),
       TextLine("INCLUDED-CORE", "OpenAI, Claude, Anthropic, Gemini, BardAI, Copilot, Civitai, Stripe, PayPal"),
       TextLine("INCLUDED-UPSTREAM-EXTRA", "see README"),
       TextLine("INCLUDED-CUSTOM", "see README"),
       CountLine("UPDATED", updated) >>
    \o CountLines(DOMAIN_KEYS, counts)
    \o <<TotalLine(DOMAIN_KEYS, counts)>>

(***************************************************************************)
(* sync_rules.py : main                                                    *)
(***************************************************************************)
CORE_SOURCES ==
    << "OpenAI", "Claude", "Anthropic", "Gemini", "BardAI", "Copilot",
       "Civitai", "Stripe", "PayPal" >>

\* a list of the upstream repository that is not a core source
OtherLists == {"Other"}

UpstreamNames == Range(CORE_SOURCES) \cup OtherLists

MaxSyncRuns == 2
MaxMissing  == 1

SyncLines ==
    { <<"DOMAIN-SUFFIX", COMMA, "x.com", COMMA, "no-resolve">>,
      <<"DOMAIN-SUFFIX", COMMA, "x.com">>,
      <<"X", COMMA, "v">> }

\* where a line of the upstream repository may live in the model
Homes == {"PayPal", "Other", "none"}

\* lines 93-97: every rule line found under the upstream corpus
UpstreamLines(up) ==
    UNION { up[n].data : n \in {m \in DOMAIN up : up[m].exists} }

\* the first name the loop of lines 101-105 finds no list for, "" if none;
\* here a missing list is skipped
FirstMissingCore_Skip(up) == ""

\* lines 101-104: the first core source without a list, "" when all exist
FirstMissingCore(up) ==
    IF \A i \in 1..Len(CORE_SOURCES) : up[CORE_SOURCES[i]].exists THEN ""
    ELSE CORE_SOURCES[CHOOSE i \in 1..Len(CORE_SOURCES) :
            /\ ~up[CORE_SOURCES[i]].exists
            /\ \A j \in 1..(i-1) : up[CORE_SOURCES[j]].exists]

\* line 105: the union of the core lists
CoreRules(up) ==
    UNION { up[n].data : n \in {m \in Range(CORE_SOURCES) : up[m].exists} }

\* extra lines merged without the upstream lookup
VerifiedExtra_TrustAll(extra, upstream_lines) ==
    IF extra.exists THEN extra.data ELSE {}

\* lines 108-116: extra lines found upstream
VerifiedExtra(extra, upstream_lines) ==
    IF extra.exists THEN extra.data \cap upstream_lines ELSE {}

\* lines 109-118: extra lines not found upstream
MissingExtra(extra, upstream_lines) ==
    IF extra.exists THEN extra.data \ upstream_lines ELSE {}

\* lines 121-124
CustomRules(custom) == IF custom.exists THEN custom.data ELSE {}

\* r.replace(",no-resolve", "")
RECURSIVE StripNoResolve(_)
StripNoResolve(t) ==
    IF Len(t) < 2 THEN t
    ELSE IF t[1] = COMMA /\ t[2] = "no-resolve"
         THEN StripNoResolve(SubSeq(t, 3, Len(t)))
         ELSE <<t[1]>> \o StripNoResolve(Tail(t))

SyncInit ==
    /\ \E home \in [SyncLines -> Homes] :
          upstream = [n \in UpstreamNames |-> File({l \in SyncLines : home[l] = n})]
    /\ extra_file \in {Absent} \cup {File(S) : S \in SUBSET SyncLines}
    /\ custom_file \in {Absent} \cup {File(S) : S \in SUBSET SyncLines}
    /\ main_file = Absent
    /\ resolve_file = Absent
    /\ missing_file = Absent
    /\ merged_rules = {}
    /\ exit_status = [code |-> 0, missing |-> ""]
    /\ sync_runs = 0

\* one invocation of sync_rules.py, with or without --refresh-custom
SyncRun(refresh_custom) ==
    /\ sync_runs < MaxSyncRuns
    /\ sync_runs' = sync_runs + 1
    /\ UNCHANGED <<upstream, extra_file>>
    /\ UNCHANGED notSync
    /\ LET upstream_lines == UpstreamLines(upstream)
           absent         == FirstMissingCore(upstream)
           core_rules     == CoreRules(upstream)
           extra_rules    == VerifiedExtra(extra_file, upstream_lines)
           missing_extra  == MissingExtra(extra_file, upstream_lines)
           custom_rules   == CustomRules(custom_file)
           merged         == core_rules \cup extra_rules \cup custom_rules
           resolve_set    == {StripNoResolve(r) : r \in merged}
           updated        == sync_runs + 1
       IN IF absent # ""
          THEN \* raise SystemExit(f"Missing upstream list: {path}")
               /\ exit_status' = [code |-> 1, missing |-> absent]
               /\ UNCHANGED <<custom_file, main_file, resolve_file,
                              missing_file, merged_rules>>
          ELSE /\ exit_status' = [code |-> 0, missing |-> ""]
               /\ merged_rules' = merged
               /\ \E it \in IterationOrders(merged) :
                     LET sorted == SortedByKey(it) IN
                     /\ main_file' = File([header |->
                            sync_build_header("OverseasAI", updated, CountTypes(sorted)),
                            rules |-> sorted])
                     /\ \E it2 \in IterationOrders(resolve_set) :
                           LET resolve_rules == SortedByKey(it2) IN
                           resolve_file' = File([header |->
                               sync_build_header("OverseasAI_Resolve", updated,
                                                 CountTypes(resolve_rules)),
                               rules |-> resolve_rules])
               /\ custom_file' =
                     IF refresh_custom
                     THEN File({r \in merged : r \notin core_rules /\ r \notin extra_rules})
                     ELSE custom_file
               /\ \E it3 \in IterationOrders(missing_extra) :
                     missing_file' = File(SortedByKey(it3))

\* the upstream checkout loses the list of a core source
RemoveUpstreamList(name) ==
    /\ upstream[name].exists
    /\ Cardinality({n \in Range(CORE_SOURCES) : ~upstream[n].exists}) < MaxMissing
    /\ upstream' = [upstream EXCEPT ![name] = Absent]
    /\ UNCHANGED <<extra_file, custom_file, main_file, resolve_file,
                   missing_file, merged_rules, exit_status, sync_runs>>
    /\ UNCHANGED notSync

SyncNext ==
    \/ \E refresh_custom \in BOOLEAN : SyncRun(refresh_custom)
    \/ \E name \in Range(CORE_SOURCES) : RemoveUpstreamList(name)

(***************************************************************************)
(* build_clients.py : build_header, build_qx_header, main                  *)
(***************************************************************************)
MaxRules == 3

BuildLines ==
    { <<"DOMAIN", COMMA, "a.com">>,
      <<"DOMAIN-SUFFIX", COMMA, "x.com", COMMA, "no-resolve">>,
      <<"DOMAIN-KEYWORD", COMMA, "ai">>,
      <<"IP-CIDR", COMMA, "1.1.1.1/32", COMMA, "no-resolve">>,
      <<"X", COMMA, "v", COMMA, "mod">>,
      <<"DOMAIN">> }

\* build_clients.py build_header(name, base_meta, counts)
build_header(name, base_meta, counts) ==
    <<TextLine("NAME", name)>> \o base_meta
        \o CountLines(DOMAIN_KEYS, counts) \o <<TotalLine(DOMAIN_KEYS, counts)>>

build_qx_header(name, base_meta, counts) ==
    <<TextLine("NAME", name)>> \o base_meta
        \o CountLines(HOST_KEYS, counts) \o <<TotalLine(HOST_KEYS, counts)>>

\* line.startswith(count_prefixes) for a header line "# KEY: ..."
HasCountPrefix(key) == key \in Range(DOMAIN_KEYS) \cup {"TOTAL"}

\* lines 86-98: the header without its name and count lines
RECURSIVE MetaOf(_)
MetaOf(header) ==
    IF header = <<>> THEN <<>>
    ELSE (IF Head(header).key = "NAME" \/ HasCountPrefix(Head(header).key)
          THEN <<>> ELSE <<Head(header)>>) \o MetaOf(Tail(header))

\* lines 122-133
QxType(rule_type) ==
    CASE rule_type = "DOMAIN" -> "HOST"
      [] rule_type = "DOMAIN-SUFFIX" -> "HOST-SUFFIX"
      [] rule_type = "DOMAIN-KEYWORD" -> "HOST-KEYWORD"
      [] rule_type = "DOMAIN-WILDCARD" -> "HOST-WILDCARD"
      [] rule_type = "DOMAIN-REGEX" -> "HOST-REGEX"
      [] OTHER -> rule_type

\* [x for x in extra if x != "no-resolve"]
RECURSIVE WithoutNoResolve(_)
WithoutNoResolve(fields) ==
    IF fields = <<>> THEN <<>>
    ELSE (IF Head(fields) # "no-resolve" THEN <<Head(fields)>> ELSE <<>>)
         \o WithoutNoResolve(Tail(fields))

\* lines 116-135: the line emitted for one rule; extra is computed on lines
\* 119-120 and not used by the f-string of line 135
QxLine(rule) ==
    LET parts     == Split(rule)
        rule_type == parts[1]
        value     == IF Len(parts) > 1 THEN parts[2] ELSE ""
        extra     == WithoutNoResolve(SubSeq(parts, 3, Len(parts)))
        qx_type   == QxType(rule_type)
    IN Join(<<qx_type, value, "OverseasAI">>)

\* lines 112-137: the transform loop with its counter
RECURSIVE QxLoop(_, _, _)
QxLoop(rules, lines, counts) ==
    IF rules = <<>> THEN [qx_rules |-> lines, qx_counts |-> counts]
    ELSE LET qx_type == QxType(Split(Head(rules))[1]) IN
         QxLoop(Tail(rules), Append(lines, QxLine(Head(rules))),
                IF qx_type \in DOMAIN counts
                THEN [counts EXCEPT ![qx_type] = @ + 1]
                ELSE (qx_type :> 1) @@ counts)

\* sequences of at most n rule lines
RuleLists(n) == UNION {[1..k -> BuildLines] : k \in 0..n}

BuildInit ==
    /\ \E rules \in RuleLists(MaxRules) :
          surge_file = File([header |->
                sync_build_header("OverseasAI", 1, CountTypes(rules)),
                rules |-> rules])
    /\ build_done = FALSE
    /\ rules_sorted = <<>>
    /\ surge_header = <<>>
    /\ qx_rules = <<>>
    /\ qx_counts = EmptyMap
    /\ qx_header = <<>>

\* one invocation of build_clients.py
BuildRun ==
    /\ surge_file.exists
    /\ ~build_done
    /\ LET meta   == MetaOf(surge_file.data.header)
           sorted == SortedByKey(surge_file.data.rules)
           counts == CountTypes(sorted)
           qx     == QxLoop(sorted, <<>>, EmptyMap)
       IN /\ rules_sorted' = sorted
          /\ surge_header' = build_header("OverseasAI", meta, counts)
          /\ qx_rules' = qx.qx_rules
          /\ qx_counts' = qx.qx_counts
          /\ qx_header' = build_qx_header("OverseasAI", meta, qx.qx_counts)
    /\ build_done' = TRUE
    /\ UNCHANGED surge_file
    /\ UNCHANGED notBuild

BuildNext == BuildRun

(***************************************************************************)
(* Canonical ordering of a rule set: sorted(merged_rules, key=sort_key)    *)
(***************************************************************************)
SortLines ==
    { <<"X">>,
      <<"X", COMMA>>,
      <<"X", COMMA, "v">>,
      <<"DOMAIN", COMMA, "a.com">>,
      <<"DOMAIN-SUFFIX", COMMA, "x.com">>,
      <<"DOMAIN-SUFFIX", COMMA, "x.com", COMMA, "no-resolve">> }

SortInit ==
    /\ rule_set \in SUBSET SortLines
    /\ sorted_outputs = {}

\* the set is canonicalized once more, iterated in whatever order it has
Canonicalize ==
    /\ \E it \in IterationOrders(rule_set) :
          sorted_outputs' = sorted_outputs \cup {SortedByKey(it)}
    /\ UNCHANGED rule_set
    /\ UNCHANGED notSort

SortNext == Canonicalize

(***************************************************************************)
(* Values of the variables of the programs a specification does not run    *)
(***************************************************************************)
CheckIdle ==
    /\ dns_attempts = AttAll("DATA")
    /\ check_status = ""

MonitorIdle ==
    /\ pc = "off"
    /\ rule_file = {}
    /\ state_file = Absent
    /\ domains = <<>>
    /\ state = EmptyMap
    /\ dns = EmptyMap
    /\ queued = <<>>
    /\ running = {}
    /\ results = EmptyMap
    /\ order = <<>>
    /\ candidates = <<>>
    /\ unknowns = <<>>
    /\ counters = [s \in Statuses |-> 0]
    /\ runs = 0

SyncIdle ==
    /\ upstream = EmptyMap
    /\ extra_file = {}
    /\ custom_file = Absent
    /\ main_file = Absent
    /\ resolve_file = Absent
    /\ missing_file = Absent
    /\ merged_rules = {}
    /\ exit_status = [code |-> 0, missing |-> ""]
    /\ sync_runs = 0

BuildIdle ==
    /\ surge_file = Absent
    /\ build_done = FALSE
    /\ rules_sorted = <<>>
    /\ surge_header = <<>>
    /\ qx_rules = <<>>
    /\ qx_counts = EmptyMap
    /\ qx_header = <<>>

SortIdle ==
    /\ rule_set = {}
    /\ sorted_outputs = {}

(***************************************************************************)
(* Specification of check_domain over every combination of query outcomes  *)
(***************************************************************************)
CheckInit ==
    /\ dns_attempts \in [Attempts -> Outcomes]
    /\ check_status = ""

CheckDomainCall ==
    /\ check_status = ""
    /\ check_status' = check_domain(dns_attempts)
    /\ UNCHANGED dns_attempts
    /\ UNCHANGED notCheck

SpecCheckInit == CheckInit /\ MonitorIdle /\ SyncIdle /\ BuildIdle /\ SortIdle
SpecCheckNext == CheckDomainCall
SpecCheck == SpecCheckInit /\ [][SpecCheckNext]_vars

(***************************************************************************)
(* Specification of the liveness monitor over successive runs              *)
(***************************************************************************)
SpecMonitorInit == MonitorInit /\ CheckIdle /\ SyncIdle /\ BuildIdle /\ SortIdle
SpecMonitorNext == MonitorNext
SpecMonitor == SpecMonitorInit /\ [][SpecMonitorNext]_vars

(***************************************************************************)
(* Properties of the liveness monitor                                      *)
(***************************************************************************)
\* the step in which a run leaves the worker pool and persists its state
FinishStep == pc = "checking" /\ pc' = "done"

\* count of a domain in the state persisted before the run, 0 without record
PriorCount(d) ==
    IF state_file.exists /\ d \in DOMAIN state_file.data
    THEN state_file.data[d].count ELSE 0

\* C1: in every run, for every checked domain with prior persisted count c
\* (0 without prior record), status OK persists count 0, NXDOMAIN persists
\* c+1, UNKNOWN persists exactly c, and last_status is the run's status;
\* the prior count is read from the state the previous run persisted.
C1_CountTransitions ==
    [][FinishStep =>
        \A i \in 1..Len(domains) :
            LET d == domains[i]
                s == results[d]
                c == PriorCount(d)
                r == state_file'.data[d]
            IN /\ r.last_status = s
               /\ s = "OK" => r.count = 0
               /\ s = "NXDOMAIN" => r.count = c + 1
               /\ s = "UNKNOWN" => r.count = c
               /\ s \in Statuses]_vars

C1_Witness ==
    /\ pc = "done"
    /\ \E d \in Range(domains) :
          /\ d \in DOMAIN state
          /\ state[d].count = 2
          /\ results[d] = "UNKNOWN"
          /\ state_file.data[d].count = 2
          /\ state_file.data[d].last_status = "UNKNOWN"

\* C3 (as stated): a run never deletes a record; the record of a domain
\* absent from the current corpus is still persisted, unchanged, after it.
C3_RecordsNeverDeleted ==
    [][FinishStep =>
        \A d \in DOMAIN state \ Range(domains) :
            /\ d \in DOMAIN state_file'.data
            /\ state_file'.data[d] = state[d]]_vars

\* C3 (amended): the state persisted at the end of a run holds records for
\* exactly the domains checked in that run, so the prior record of a domain
\* absent from the current corpus is dropped.
C3_OnlyCheckedDomainsPersisted ==
    pc = "done" => /\ state_file.exists
                   /\ DOMAIN state_file.data = Range(domains)

C3_Witness ==
    /\ pc = "done"
    /\ \E d \in DOMAIN state :
          /\ state[d].count > 0
          /\ d \notin Range(domains)
          /\ d \notin DOMAIN state_file.data

\* the status the check of d yields on its own, whatever the others do
OwnStatus(d) == FutureResult(dns[d])

StrictlySorted(seq) ==
    \A i, j \in 1..Len(seq) : i < j => StrLess(seq[i], seq[j])

\* C9: the outcome of a run is the same for every completion order of the
\* pool: each domain's persisted status is what its own check yields
\* (UNKNOWN when it raises), its count advances from its own prior count,
\* and both listings are sorted, duplicate-free and made of exactly the
\* domains over the threshold, respectively with status UNKNOWN.
C9_OrderIndependent ==
    pc = "done" =>
        /\ \A d \in Range(domains) :
              LET c == IF d \in DOMAIN state THEN state[d].count ELSE 0
                  r == state_file.data[d]
              IN /\ r.last_status = OwnStatus(d)
                 /\ r.count = CASE OwnStatus(d) = "OK" -> 0
                                [] OwnStatus(d) = "NXDOMAIN" -> c + 1
                                [] OTHER -> c
        /\ StrictlySorted(candidates)
        /\ StrictlySorted(unknowns)
        /\ Range(unknowns) = {d \in Range(domains) : OwnStatus(d) = "UNKNOWN"}
        /\ Range(candidates) =
              {d \in Range(domains) : state_file.data[d].count >= THRESHOLD}
        /\ \A s \in Statuses :
              counters[s] = Cardinality({d \in Range(domains) : OwnStatus(d) = s})

C9_Witness ==
    /\ pc = "done"
    /\ Len(order) = 2
    /\ order # domains
    /\ dns[order[1]].raises
    /\ results[order[2]] = "NXDOMAIN"
    /\ state_file.data[order[2]].count = 2

\* C10: after every run a checked domain is listed as removal candidate iff
\* its updated count is >= THRESHOLD; it enters the list in the run whose
\* NXDOMAIN raises the count from THRESHOLD-1 to THRESHOLD, stays through
\* UNKNOWN runs and leaves in the first run whose status is OK.
C10_CandidateIffUpdatedCount ==
    /\ [](pc = "done" =>
            /\ Range(candidates) \subseteq Range(domains)
            /\ \A d \in Range(domains) :
                  d \in Range(candidates) <=> state_file.data[d].count >= THRESHOLD)
    /\ [][FinishStep =>
            \A d \in Range(domains) :
                /\ (d \in Range(candidates') /\ d \notin Range(candidates))
                      => (results[d] = "NXDOMAIN" /\ PriorCount(d) = THRESHOLD - 1)
                /\ (d \in Range(candidates) /\ results[d] = "UNKNOWN")
                      => d \in Range(candidates')
                /\ results[d] = "OK" => d \notin Range(candidates')]_vars

C10_Witness ==
    /\ pc = "done"
    /\ \E d \in Range(domains) :
          /\ d \in DOMAIN state
          /\ state[d].count = THRESHOLD - 1
          /\ state_file.data[d].count = THRESHOLD
          /\ d \in Range(candidates)

(***************************************************************************)
(* Specification of the sync pipeline                                      *)
(***************************************************************************)
SpecSyncInit == SyncInit /\ CheckIdle /\ MonitorIdle /\ BuildIdle /\ SortIdle
SpecSyncNext == SyncNext
SpecSync == SpecSyncInit /\ [][SpecSyncNext]_vars

(***************************************************************************)
(* Properties of the sync pipeline                                         *)
(***************************************************************************)
\* a sync invocation that ran to completion / that was started
SyncCompletes == sync_runs' = sync_runs + 1 /\ exit_status'.code = 0
SyncInvoked   == sync_runs' = sync_runs + 1

\* the extra lines of the run that are not in the upstream universe
UnverifiedExtra ==
    IF extra_file.exists THEN extra_file.data \ UpstreamLines(upstream) ELSE {}

\* C4 (as stated): an extra line that is not in the upstream universe is not
\* in the merged corpus and is in the missing report, whatever core and
\* custom hold.
C4_UnverifiedExtraNeverMerged ==
    [][SyncCompletes =>
        \A l \in UnverifiedExtra :
            /\ l \notin merged_rules'
            /\ l \notin Range(main_file'.data.rules)
            /\ l \in Range(missing_file'.data)]_vars

\* C4 (amended): an extra line that is not in the upstream universe is in
\* the missing report and is not merged from the extra list: it is in the
\* merged corpus exactly when the custom bucket holds the same line.
C4_UnverifiedExtraOnlyViaCustom ==
    [][SyncCompletes =>
        \A l \in UnverifiedExtra :
            /\ l \in Range(missing_file'.data)
            /\ l \in merged_rules' <=> l \in CustomRules(custom_file)
            /\ l \in Range(main_file'.data.rules) <=> l \in CustomRules(custom_file)]_vars

C4_Witness ==
    /\ sync_runs = 1
    /\ exit_status.code = 0
    /\ \E l, k \in UnverifiedExtra :
          /\ l \in Range(missing_file.data)
          /\ l \in merged_rules
          /\ k \in Range(missing_file.data)
          /\ k \notin merged_rules

\* C8: when a core source list is absent the run exits non-zero naming a
\* missing source, and the merged corpus file, the resolve file, the custom
\* file and the missing report are left exactly as they were.
C8_AbortWritesNothing ==
    [][(SyncInvoked /\ \E n \in Range(CORE_SOURCES) : ~upstream[n].exists) =>
        /\ exit_status'.code # 0
        /\ exit_status'.missing \in Range(CORE_SOURCES)
        /\ ~upstream[exit_status'.missing].exists
        /\ main_file' = main_file
        /\ resolve_file' = resolve_file
        /\ custom_file' = custom_file
        /\ missing_file' = missing_file]_vars

C8_Witness ==
    /\ sync_runs = 2
    /\ exit_status.code = 1
    /\ exit_status.missing = "PayPal"
    /\ main_file.exists
    /\ main_file.data.header[8] = CountLine("UPDATED", 1)
    /\ main_file.data.rules # <<>>

(***************************************************************************)
(* Specifications of the client build and of the canonical ordering        *)
(***************************************************************************)
SpecBuildInit == BuildInit /\ CheckIdle /\ MonitorIdle /\ SyncIdle /\ SortIdle
SpecBuildNext == BuildNext
SpecBuild == SpecBuildInit /\ [][SpecBuildNext]_vars

SpecSortInit == SortInit /\ CheckIdle /\ MonitorIdle /\ SyncIdle /\ BuildIdle
SpecSortNext == SortNext
SpecSort == SpecSortInit /\ [][SpecSortNext]_vars

(***************************************************************************)
(* Properties of check_domain                                              *)
(***************************************************************************)
\* C2: check_domain classifies from all four resolver/record-kind attempts:
\* OK if any attempt is answered (with data or with no data), otherwise
\* UNKNOWN if any attempt failed, otherwise (every attempt said the name
\* does not exist) NXDOMAIN.
C2_ClassifiesAllAttempts ==
    check_status # "" =>
        check_status =
            IF \E a \in Attempts : dns_attempts[a] \in Answered THEN "OK"
            ELSE IF \E a \in Attempts : dns_attempts[a] \in Failed THEN "UNKNOWN"
            ELSE "NXDOMAIN"

(***************************************************************************)
(* Properties of the canonical ordering                                    *)
(***************************************************************************)
\* C5: canonical ordering is deterministic: sorting a set of textually
\* distinct rule lines by sort_key gives one output sequence whatever the
\* iteration order (no two distinct lines have equal sort keys).
C5_SortDeterministic == Cardinality(sorted_outputs) <= 1

(***************************************************************************)
(* Properties of the client build                                          *)
(***************************************************************************)
Last(seq) == seq[Len(seq)]

\* the sum of the numbers on the "# <TYPE>: <count>" lines of a header
RECURSIVE SumOfCountLines(_, _)
SumOfCountLines(header, keys) ==
    IF header = <<>> THEN 0
    ELSE (IF Head(header).key \in Range(keys) THEN Head(header).n ELSE 0)
         + SumOfCountLines(Tail(header), keys)

TypesOf(rules) == {TypeOf(rules[i]) : i \in DOMAIN rules}

\* C6 (as stated): the number on the final TOTAL line equals the sum of the
\* numbers on the count lines of the same header, for every count map,
\* also one holding counts for types outside the fixed enumeration.
C6_TotalIsSumOfCountLines ==
    build_done =>
        /\ Last(surge_header).key = "TOTAL"
        /\ Last(surge_header).n = SumOfCountLines(surge_header, DOMAIN_KEYS)
        /\ Last(qx_header).key = "TOTAL"
        /\ Last(qx_header).n = SumOfCountLines(qx_header, HOST_KEYS)

\* C6 (amended): the final TOTAL line is always emitted, also for a zero
\* sum, and its number is the sum of all counts of the map, that is the
\* number of rule lines counted; it equals the sum of the emitted count
\* lines exactly when no counted rule has a type outside the header's list.
C6_TotalIsSumOfAllCounts ==
    build_done =>
        /\ Last(surge_header) = CountLine("TOTAL", Len(rules_sorted))
        /\ (Last(surge_header).n = SumOfCountLines(surge_header, DOMAIN_KEYS))
              <=> (TypesOf(rules_sorted) \subseteq Range(DOMAIN_KEYS))
        /\ Last(qx_header) = CountLine("TOTAL", Len(qx_rules))
        /\ (Last(qx_header).n = SumOfCountLines(qx_header, HOST_KEYS))
              <=> (TypesOf(qx_rules) \subseteq Range(HOST_KEYS))

C6_Witness ==
    /\ build_done
    /\ Len(rules_sorted) = 3
    /\ "X" \in TypesOf(rules_sorted)
    /\ "DOMAIN" \in TypesOf(rules_sorted)
    /\ Last(qx_header).n = 3
    /\ SumOfCountLines(qx_header, HOST_KEYS) = 2

\* the type the remap dialect uses for a canonical type
ClaimedRemap(t) ==
    IF t \in {"DOMAIN", "DOMAIN-SUFFIX", "DOMAIN-KEYWORD", "DOMAIN-WILDCARD",
              "DOMAIN-REGEX"}
    THEN CASE t = "DOMAIN" -> "HOST"
           [] t = "DOMAIN-SUFFIX" -> "HOST-SUFFIX"
           [] t = "DOMAIN-KEYWORD" -> "HOST-KEYWORD"
           [] t = "DOMAIN-WILDCARD" -> "HOST-WILDCARD"
           [] t = "DOMAIN-REGEX" -> "HOST-REGEX"
    ELSE t

\* the fields of a rule line after the value, without no-resolve
OtherModifiers(fields) ==
    LET mods == SubSeq(fields, 3, Len(fields))
        keep == {i \in DOMAIN mods : mods[i] # "no-resolve"}
        F[i \in 0..Len(mods)] ==
            IF i = 0 THEN <<>>
            ELSE IF i \in keep THEN Append(F[i-1], mods[i]) ELSE F[i-1]
    IN F[Len(mods)]

\* C7: the remap transform emits for every canonical line exactly one line:
\* the remapped type, the unchanged value, every modifier other than
\* no-resolve re-serialized, and the policy-group label last; the counts
\* handed to the header count the emitted types and sum to the lines emitted.
C7_RemapKeepsOtherModifiers ==
    build_done =>
        /\ Len(qx_rules) = Len(rules_sorted)
        /\ \A i \in DOMAIN rules_sorted :
              LET fields == Split(rules_sorted[i]) IN
              qx_rules[i] =
                  Join(<<ClaimedRemap(fields[1]),
                         IF Len(fields) > 1 THEN fields[2] ELSE "">>
                       \o OtherModifiers(fields) \o <<"OverseasAI">>)
        /\ qx_counts = CountTypes(qx_rules)
        /\ SumValues(qx_counts) = Len(qx_rules)

====
